---- MODULE Spec2Model ----
(***************************************************************************)
(* A model of src/main.js: a one-round non-transitive game with an HMAC    *)
(* commitment.  The process reads a line of moves, constructs the game     *)
(* (NonTransitiveGame.constructor), prints the menu and reads one line of  *)
(* player input (NonTransitiveGame.play and its rl.question callback).     *)
(*                                                                         *)
(* JavaScript strings are sequences of one-character strings, so that      *)
(* split(' '), Number(...), toLowerCase(), padEnd(...) and join(...) are   *)
(* computed character by character.                                        *)
(***************************************************************************)
EXTENDS Integers, Sequences, FiniteSets, TLC

VARIABLES pc, moves, results, table, computerMove, key, computerHmac,
          input, result, stdout, stderr, exitCode

vars == <<pc, moves, results, table, computerMove, key, computerHmac,
          input, result, stdout, stderr, exitCode>>

(***************************************************************************)
(* Bounds of the model.                                                    *)
(***************************************************************************)
\* the largest number of tokens in the line of moves
MaxTokens == 5
\* the largest length of a player input built from InputChars
MaxInputLen == 3

(***************************************************************************)
(* Values that are not strings.                                            *)
(***************************************************************************)
\* JavaScript's undefined (an out-of-bounds or fractional array index)
Undefined == <<"<undefined>">>
\* the object Object.prototype, which every {} inherits from
ObjectPrototype == <<"<Object.prototype>">>
\* a field that has not been assigned yet
None == <<"<none>">>
\* Number(...) of a string that is no numeric literal
NaN == [nan |-> TRUE, num |-> 0, den |-> 1]

(***************************************************************************)
(* String helpers.                                                         *)
(***************************************************************************)
RECURSIVE Repeat(_, _)
\* String.prototype.repeat for a one-character string
Repeat(c, n) == IF n <= 0 THEN <<>> ELSE <<c>> \o Repeat(c, n - 1)

\* String.prototype.padEnd with the default pad character
padEnd(s, width) == s \o Repeat(" ", width - Len(s))

RECURSIVE join(_, _)
\* Array.prototype.join
join(strs, sep) ==
    IF Len(strs) = 0 THEN <<>>
    ELSE IF Len(strs) = 1 THEN strs[1]
    ELSE strs[1] \o sep \o join(Tail(strs), sep)

RECURSIVE SplitFrom(_, _, _, _)
SplitFrom(s, i, cur, acc) ==
    IF i > Len(s) THEN Append(acc, cur)
    ELSE IF s[i] = " " THEN SplitFrom(s, i + 1, <<>>, Append(acc, cur))
    ELSE SplitFrom(s, i + 1, Append(cur, s[i]), acc)

\* input.split(' '): an empty line gives one empty token, two adjacent
\* spaces give an empty token between them
split(s) == SplitFrom(s, 1, <<>>, <<>>)

\* String.prototype.toLowerCase on the letters the inputs are built from
LowerChar(c) ==
    CASE c = "H" -> "h"
      [] c = "E" -> "e"
      [] c = "L" -> "l"
      [] c = "P" -> "p"
      [] OTHER -> c

toLowerCase(s) == [i \in 1..Len(s) |-> LowerChar(s[i])]

Max(S) == CHOOSE x \in S : \A y \in S : y <= x

RECURSIVE DecStr(_)
\* the decimal rendering of a natural number in a template string
DecStr(n) ==
    LET d == <<"0", "1", "2", "3", "4", "5", "6", "7", "8", "9">>
    IN  IF n < 10 THEN <<d[n + 1]>> ELSE DecStr(n \div 10) \o <<d[(n % 10) + 1]>>

HexDigits == <<"0", "1", "2", "3", "4", "5", "6", "7",
               "8", "9", "a", "b", "c", "d", "e", "f">>

\* Buffer.toString('hex'): two hexadecimal digits for each byte
RECURSIVE toHex(_)
toHex(bytes) ==
    IF Len(bytes) = 0 THEN <<>>
    ELSE <<HexDigits[(bytes[1] \div 16) + 1], HexDigits[(bytes[1] % 16) + 1]>>
         \o toHex(Tail(bytes))

(***************************************************************************)
(* Number(string), as the comparisons and the subtraction of play() apply  *)
(* it to the player's input.  A number is num/den with den a power of ten. *)
(* The literals covered are the decimal ones: optional surrounding blanks, *)
(* an optional sign, digits with an optional fraction.  Exponents, 0x      *)
(* literals and Infinity need characters outside the inputs of the model.  *)
(***************************************************************************)
Digits == {"0", "1", "2", "3", "4", "5", "6", "7", "8", "9"}

DigitValue(c) == CHOOSE v \in 0..9 : DecStr(v) = <<c>>

RECURSIVE TrimLeft(_)
TrimLeft(s) == IF Len(s) > 0 /\ s[1] = " " THEN TrimLeft(Tail(s)) ELSE s

RECURSIVE TrimRight(_)
TrimRight(s) ==
    IF Len(s) > 0 /\ s[Len(s)] = " " THEN TrimRight(SubSeq(s, 1, Len(s) - 1)) ELSE s

RECURSIVE DigitsValue(_)
DigitsValue(s) ==
    IF Len(s) = 0 THEN 0
    ELSE DigitsValue(SubSeq(s, 1, Len(s) - 1)) * 10 + DigitValue(s[Len(s)])

RECURSIVE Pow10(_)
Pow10(n) == IF n = 0 THEN 1 ELSE 10 * Pow10(n - 1)

AllDigits(s) == \A i \in 1..Len(s) : s[i] \in Digits

\* an unsigned decimal literal: digits, digits '.', digits '.' digits, '.' digits
UnsignedNumber(s) ==
    LET dots == {i \in 1..Len(s) : s[i] = "."}
    IN  IF dots = {} THEN
            IF Len(s) > 0 /\ AllDigits(s)
            THEN [nan |-> FALSE, num |-> DigitsValue(s), den |-> 1]
            ELSE NaN
        ELSE IF Cardinality(dots) > 1 THEN NaN
        ELSE LET d == CHOOSE i \in dots : TRUE
                 ip == SubSeq(s, 1, d - 1)
                 fp == SubSeq(s, d + 1, Len(s))
             IN  IF Len(ip) + Len(fp) > 0 /\ AllDigits(ip) /\ AllDigits(fp)
                 THEN [nan |-> FALSE,
                       num |-> DigitsValue(ip) * Pow10(Len(fp)) + DigitsValue(fp),
                       den |-> Pow10(Len(fp))]
                 ELSE NaN

Number(s) ==
    LET t == TrimRight(TrimLeft(s))
    IN  IF Len(t) = 0 THEN [nan |-> FALSE, num |-> 0, den |-> 1]
        ELSE IF t[1] = "-" THEN
            LET u == UnsignedNumber(Tail(t))
            IN  IF u.nan THEN NaN ELSE [u EXCEPT !.num = 0 - u.num]
        ELSE IF t[1] = "+" THEN UnsignedNumber(Tail(t))
        ELSE UnsignedNumber(t)

\* isNaN(input)
isNaN(s) == Number(s).nan

\* input < n and input > n for a string input and a number n
LessThan(s, n) == ~Number(s).nan /\ Number(s).num < n * Number(s).den
GreaterThan(s, n) == ~Number(s).nan /\ Number(s).num > n * Number(s).den

\* faulty variant: the index is input instead of input - 1
ElementAtInput(array, s) ==
    LET n == Number(s)
    IN  IF n.nan \/ n.num % n.den # 0 THEN Undefined
        ELSE LET k == n.num \div n.den
             IN  IF k >= 0 /\ k < Len(array) THEN array[k + 1] ELSE Undefined

\* array[input - 1]: the element when input - 1 is an index of the array,
\* undefined when it is fractional, negative, too large or NaN
ElementAtInputMinusOne(array, s) ==
    LET n == Number(s)
    IN  IF n.nan \/ n.num % n.den # 0 THEN Undefined
        ELSE LET k == n.num \div n.den
             IN  IF k - 1 >= 0 /\ k - 1 < Len(array) THEN array[k] ELSE Undefined

(***************************************************************************)
(* HMACCalculator (lines 5-15).                                            *)
(***************************************************************************)
\* the byte strings crypto.randomBytes may return, one byte standing for
\* the 32 of the program
RandomBytes == {<<10>>, <<243>>}

\* the keys the constructor of HMACCalculator may draw
Keys == {toHex(b) : b \in RandomBytes}

\* the characters a key or a move is made of, for the digest
CodeAlphabet == HexDigits \o <<"_", "p", "r", "o", "t">>

CharCode(c) == CHOOSE i \in 1..Len(CodeAlphabet) : CodeAlphabet[i] = c

RECURSIVE Absorb(_, _)
\* the digest state after absorbing the characters of s
Absorb(h, s) ==
    IF Len(s) = 0 THEN h
    ELSE Absorb((h * 33 + CharCode(s[1])) % 65536, Tail(s))

\* The exception hmac.update raises for an argument that is no string.
TypeError == <<"<TypeError>">>

\* calculateHMAC(data) under this.key.  The keyed SHA-256 of the library is
\* stood for by a 16-bit keyed digest: a deterministic function of the key
\* and the data, rendered in hexadecimal.  update(undefined) throws.
calculateHMAC(k, data) ==
    IF data = Undefined THEN TypeError
    ELSE LET h == Absorb(Absorb(Absorb(5381, k), <<"_">>), data)
         IN  toHex(<<h \div 256, h % 256>>)

(***************************************************************************)
(* GameLogic (lines 135-159).                                              *)
(***************************************************************************)
\* the name whose assignment on a plain object sets the prototype instead
\* of creating a property
ProtoName == <<"_", "_", "p", "r", "o", "t", "o", "_", "_">>

\* generateResults: the own properties of this.results after the loop.
\* results[currentMove] = next creates or overwrites the property named
\* currentMove, except for the name __proto__, whose assignment of a string
\* is ignored.  A later assignment to the same name wins.
generateResults(mvs) ==
    LET names == {mvs[i] : i \in 1..Len(mvs)} \ {ProtoName}
        last(n) == Max({i \in 1..Len(mvs) : mvs[i] = n})
    IN  [n \in names |-> mvs[(last(n) % Len(mvs)) + 1]]

\* this.results[name] for a name that is a move or undefined
ResultsGet(res, name) ==
    IF name = ProtoName THEN ObjectPrototype
    ELSE IF name \in DOMAIN res THEN res[name]
    ELSE Undefined

WinStr == <<"W", "i", "n", "!">>
LoseStr == <<"L", "o", "s", "e", "!">>
DrawStr == <<"D", "r", "a", "w", "!">>

\* faulty variant: the second branch repeats the result of the first
determineWinner_SecondBranchWins(res, playerMove, cMove) ==
    IF ResultsGet(res, cMove) = playerMove THEN WinStr
    ELSE IF ResultsGet(res, playerMove) = cMove THEN WinStr
    ELSE DrawStr

determineWinner(res, playerMove, cMove) ==
    IF ResultsGet(res, cMove) = playerMove THEN WinStr
    ELSE IF ResultsGet(res, playerMove) = cMove THEN LoseStr
    ELSE DrawStr

(***************************************************************************)
(* ResultsTable (lines 29-63).                                             *)
(***************************************************************************)
HeaderCell == <<" ", "U", "s", "e", "r", "/", "C", "o", "m", "p", "u", "t", "e", "r">>

\* faulty variant: the cell is the result of the column's move against the
\* row's
generateTable_Transposed(mvs, res) ==
    <<(<<HeaderCell>> \o mvs)>> \o
    [i \in 1..Len(mvs) |->
        <<mvs[i]>> \o [j \in 1..Len(mvs) |-> determineWinner(res, mvs[j], mvs[i])]]

generateTable(mvs, res) ==
    <<(<<HeaderCell>> \o mvs)>> \o
    [i \in 1..Len(mvs) |->
        <<mvs[i]>> \o [j \in 1..Len(mvs) |-> determineWinner(res, mvs[i], mvs[j])]]

\* faulty variant: the widths are those of the header row
colWidths_HeaderOnly(tbl) ==
    [c \in 1..Len(tbl[1]) |-> Len(tbl[1][c])]

colWidths(tbl) ==
    [c \in 1..Len(tbl[1]) |-> Max({Len(tbl[r][c]) : r \in 1..Len(tbl)})]

separator(tbl) ==
    join([c \in 1..Len(tbl[1]) |-> Repeat("-", colWidths(tbl)[c])], <<"-", "+", "-">>)

formattedRows(tbl) ==
    [r \in 1..Len(tbl) |->
        join([c \in 1..Len(tbl[r]) |-> padEnd(tbl[r][c], colWidths(tbl)[c])],
             <<" ", "|", " ">>)]

formatTable(tbl) ==
    join([r \in 1..Len(tbl) |->
            (IF r - 1 = 1 THEN separator(tbl) \o <<"\n">> ELSE <<>>)
            \o formattedRows(tbl)[r] \o <<"\n">>], <<>>)
    \o separator(tbl)

(***************************************************************************)
(* MoveGenerator (lines 17-27).                                            *)
(***************************************************************************)
\* the values random.integer(0, this.moves.length - 1) may return
\* faulty variant: the upper bound of the draw is one too small
RandomIndexes_SkipsLast(mvs) == 0..(Len(mvs) - 2)

RandomIndexes(mvs) == 0..(Len(mvs) - 1)

\* generateRandomMove for a drawn index (arrays are 1-based here)
generateRandomMove(mvs, randomIndex) == mvs[randomIndex + 1]

(***************************************************************************)
(* What the process writes.  A written line is [k |-> the literal text of   *)
(* the line, v |-> the value interpolated after it], v being the empty     *)
(* string for a line without interpolation.                                *)
(***************************************************************************)
Line(k, v) == [k |-> k, v |-> v]

\* the rendering of a value by a template string
Show(x) ==
    IF x = Undefined THEN <<"u", "n", "d", "e", "f", "i", "n", "e", "d">> ELSE x

\* displayHelp (lines 88-94)
displayHelp ==
    << Line("Instructions:", <<>>),
       Line("This table shows the results for the user.", <<>>),
       Line("To find out who wins, locate your move in the User column,", <<>>),
       Line("then go to the corresponding row and column to see the result.", <<>>),
       Line("Type ? or help as a move to see the game results table.", <<"\n">>) >>

\* lines 97-102 of play(): the menu
MenuLines(mvs) ==
    << Line("Available moves:", <<>>), Line("? - Show game results", <<>>) >>
    \o [i \in 1..Len(mvs) |-> Line("menu", DecStr(i) \o <<" ", "-", " ">> \o mvs[i])]
    \o << Line("0 - Exit", <<>>) >>

\* lines 109 and 131 of play(): the prompt of rl.question, then displayHelp()
PromptLines == << Line("Enter your move: ", <<>>) >> \o displayHelp

\* lines 114-116: the help branch of the callback
HelpLines(tbl) ==
    displayHelp \o
    << Line("Game Results (from the user's perspective):", <<>>),
       Line("table", formatTable(tbl)) >>

\* line 118: the branch of an input that is no number in range
InvalidLines == << Line("Invalid input. Please enter a valid move.", <<>>) >>

\* faulty variant: the computer's move is settled after the player's is
\* known, and the tag is computed to match it
RevealLines_MoveChosenAfterInput(playerMove, cHmac, k, cMove) ==
    << Line("Your move: ", Show(playerMove)),
       Line("Computer's HMAC move: ", calculateHMAC(k, Show(playerMove))),
       Line("Enter HMAC key: ", k),
       Line("Computer's move: ", Show(playerMove)) >>

\* faulty variant: the move written as the computer's is the player's
RevealLines_PlayerMoveAsComputers(playerMove, cHmac, k, cMove) ==
    << Line("Your move: ", Show(playerMove)),
       Line("Computer's HMAC move: ", cHmac),
       Line("Enter HMAC key: ", k),
       Line("Computer's move: ", Show(playerMove)) >>

\* lines 121-124: what the last branch writes before it recomputes the tag
RevealLines(playerMove, cHmac, k, cMove) ==
    << Line("Your move: ", Show(playerMove)),
       Line("Computer's HMAC move: ", cHmac),
       Line("Enter HMAC key: ", k),
       Line("Computer's move: ", cMove) >>

\* lines 125-128: the recomputed tag and the outcome
OutcomeLines(playerHmac, res) ==
    << Line("Your HMAC move: ", playerHmac), Line("result", res) >>

(***************************************************************************)
(* The branches of the callback of play() (lines 109-130).                 *)
(***************************************************************************)
\* faulty variant: the input is compared with the number 0 by ===, which no string
\* equals
IsExitInput_StrictNumber(inp) == FALSE

IsExitInput(inp) == inp = <<"0">>

IsHelpInput(inp) ==
    \/ toLowerCase(inp) = <<"?">>
    \/ toLowerCase(inp) = <<"h", "e", "l", "p">>

\* faulty variant: the lower bound of the range is not checked
IsInvalidInput_NoLowerBound(inp, mvs) ==
    isNaN(inp) \/ GreaterThan(inp, Len(mvs))

IsInvalidInput(inp, mvs) ==
    isNaN(inp) \/ LessThan(inp, 1) \/ GreaterThan(inp, Len(mvs))

\* the branch the callback takes
Branch(inp, mvs) ==
    IF IsExitInput(inp) THEN "exit"
    ELSE IF IsHelpInput(inp) THEN "help"
    ELSE IF IsInvalidInput(inp, mvs) THEN "invalid"
    ELSE "move"

(***************************************************************************)
(* The checks of the constructor (lines 69-78).                            *)
(***************************************************************************)
HasDuplicates(mvs) == Cardinality({mvs[i] : i \in 1..Len(mvs)}) # Len(mvs)

\* faulty variant: the parity of the count is not checked
BadCount_NoParity(mvs) == Len(mvs) < 3

BadCount(mvs) == Len(mvs) < 3 \/ Len(mvs) % 2 # 1

(***************************************************************************)
(* The inputs of the model.                                                *)
(***************************************************************************)
\* the tokens a line of moves is made of: four plain names and the name
\* __proto__ (the line of no token at all is the empty line, which split
\* turns into one empty token)
Tokens == {<<"a">>, <<"b">>, <<"c">>, <<"d">>, ProtoName}

MoveLines ==
    {join(ts, <<" ">>) : ts \in UNION {[1..n -> Tokens] : n \in 0..MaxTokens}}

InputChars == {"1", ".", "5"}

PlayerInputs ==
    UNION {[1..n -> InputChars] : n \in 0..MaxInputLen}
    \cup { <<"0">>, <<"0", "0">>, <<"0", "1">>, <<"3">>, <<" ", "3">>, <<"-", "1">>, <<"x">>,
           <<"?">>, <<"h", "e", "l", "p">>, <<"H", "E", "L", "P">> }

(***************************************************************************)
(* The process.                                                            *)
(*   pc = "readMoves"   the first rl.question waits for the line of moves  *)
(*   pc = "constructed" new NonTransitiveGame(moves) has returned          *)
(*   pc = "awaitMove"   play() has returned, its rl.question waits         *)
(*   pc = "returned"    the callback of play() has returned                *)
(*   pc = "exited"      the process has ended with exitCode                *)
(***************************************************************************)
Init ==
    /\ pc = "readMoves"
    /\ moves = None
    /\ results = None
    /\ table = None
    /\ computerMove = None
    /\ key = None
    /\ computerHmac = None
    /\ input = None
    /\ result = None
    /\ stdout = << Line("Enter moves (separated by spaces): ", <<>>) >>
    /\ stderr = <<>>
    /\ exitCode = -1

\* lines 166-171: the callback of the first question splits the line and
\* constructs the game; the constructor (lines 66-86) ends the process on a
\* move list it rejects and otherwise picks the move and commits to it
NonTransitiveGame(line, randomIndex, k) ==
    /\ pc = "readMoves"
    /\ moves' = split(line)
    /\ UNCHANGED <<input, result, stdout>>
    /\ IF HasDuplicates(moves') THEN
            /\ stderr' = Append(stderr,
                   Line("Error: Duplicate moves detected. Please enter distinct moves.", <<>>))
            /\ pc' = "exited"
            /\ exitCode' = 1
            /\ UNCHANGED <<results, table, computerMove, key, computerHmac>>
       ELSE IF BadCount(moves') THEN
            /\ stderr' = Append(stderr,
                   Line("Invalid input. Please enter an odd number of at least three moves.", <<>>))
            /\ pc' = "exited"
            /\ exitCode' = 1
            /\ UNCHANGED <<results, table, computerMove, key, computerHmac>>
       ELSE
            /\ randomIndex \in RandomIndexes(moves')
            /\ results' = generateResults(moves')
            /\ table' = generateTable(moves', results')
            /\ computerMove' = generateRandomMove(moves', randomIndex)
            /\ key' = k
            /\ computerHmac' = calculateHMAC(key', computerMove')
            /\ pc' = "constructed"
            /\ UNCHANGED <<stderr, exitCode>>

\* faulty variant: play() draws the computer's move again
play_RepicksMove ==
    /\ pc = "constructed"
    /\ stdout' = stdout \o MenuLines(moves) \o PromptLines
    /\ pc' = "awaitMove"
    /\ \E randomIndex \in RandomIndexes(moves) :
           computerMove' = generateRandomMove(moves, randomIndex)
    /\ UNCHANGED <<moves, results, table, key, computerHmac,
                   input, result, stderr, exitCode>>

\* lines 96-132: play() writes the menu, asks for the move and writes the
\* instructions
play ==
    /\ pc = "constructed"
    /\ stdout' = stdout \o MenuLines(moves) \o PromptLines
    /\ pc' = "awaitMove"
    /\ UNCHANGED <<moves, results, table, computerMove, key, computerHmac,
                   input, result, stderr, exitCode>>

\* lines 109-130: the callback of play() on the line the player entered
OnPlayerInput(inp) ==
    /\ pc = "awaitMove"
    /\ input' = inp
    /\ UNCHANGED <<moves, results, table, computerMove, key, computerHmac>>
    /\ LET b == Branch(inp, moves)
           playerMove == ElementAtInputMinusOne(moves, inp)
           playerHmac == calculateHMAC(key, playerMove)
       IN  CASE b = "exit" ->
                  /\ pc' = "exited"
                  /\ exitCode' = 0
                  /\ UNCHANGED <<result, stdout, stderr>>
             [] b = "help" ->
                  /\ stdout' = stdout \o HelpLines(table)
                  /\ pc' = "returned"
                  /\ UNCHANGED <<result, stderr, exitCode>>
             [] b = "invalid" ->
                  /\ stdout' = stdout \o InvalidLines
                  /\ pc' = "returned"
                  /\ UNCHANGED <<result, stderr, exitCode>>
             [] b = "move" /\ playerHmac = TypeError ->
                  \* hmac.update(undefined) throws out of the callback:
                  \* the uncaught exception ends the process with status 1
                  /\ stdout' = stdout \o RevealLines(playerMove, computerHmac, key, computerMove)
                  /\ stderr' = Append(stderr, Line("Uncaught TypeError", <<>>))
                  /\ pc' = "exited"
                  /\ exitCode' = 1
                  /\ UNCHANGED result
             [] b = "move" /\ playerHmac # TypeError ->
                  /\ result' = determineWinner(results, playerMove, computerMove)
                  /\ stdout' = stdout
                                 \o RevealLines(playerMove, computerHmac, key, computerMove)
                                 \o OutcomeLines(playerHmac, result')
                  /\ pc' = "returned"
                  /\ UNCHANGED <<stderr, exitCode>>

\* Both readline interfaces are closed (lines 110 and 167) and no callback
\* is pending: the process ends with status 0.
ProcessEnd ==
    /\ pc = "returned"
    /\ pc' = "exited"
    /\ exitCode' = 0
    /\ UNCHANGED <<moves, results, table, computerMove, key, computerHmac,
                   input, result, stdout, stderr>>

\* lines 166-173: the first question is answered with a line
EnterMoves ==
    /\ pc = "readMoves"
    /\ \E line \in MoveLines, randomIndex \in 0..(MaxTokens - 1), k \in Keys :
           NonTransitiveGame(line, randomIndex, k)

\* the question of play() is answered with a line
EnterMove ==
    /\ pc = "awaitMove"
    /\ \E inp \in PlayerInputs : OnPlayerInput(inp)

Next ==
    \/ EnterMoves
    \/ play
    \/ EnterMove
    \/ ProcessEnd

Spec == Init /\ [][Next]_vars

(***************************************************************************)
(* What has been written to the standard output.                           *)
(***************************************************************************)
Printed(k) == \E i \in 1..Len(stdout) : stdout[i].k = k

ValuesPrinted(k) == {stdout[i].v : i \in {j \in 1..Len(stdout) : stdout[j].k = k}}

TagLine == "Computer's HMAC move: "
KeyLine == "Enter HMAC key: "
ComputerMoveLine == "Computer's move: "
MovePrompt == "Enter your move: "

\* the input is a number n with 1 <= n <= N, N the number of moves
InRange(inp) ==
    /\ ~Number(inp).nan
    /\ Number(inp).num >= Number(inp).den
    /\ Number(inp).num <= Len(moves) * Number(inp).den

HelpTokens == {<<"?">>, <<"h", "e", "l", "p">>}

(***************************************************************************)
(* C1.  When play() blocks on the player's input, the commitment tag has   *)
(* already been written, and the key and the computer's move have not.     *)
(* The code writes the tag only in the last branch of the callback, after  *)
(* the player's input has been read.                                       *)
(***************************************************************************)
C1_TagShownBeforeInput ==
    pc = "awaitMove" =>
        /\ Printed(TagLine)
        /\ ~Printed(KeyLine)
        /\ ~Printed(ComputerMoveLine)

(***************************************************************************)
(* C2.  The key and the computer's move are written only after the player  *)
(* has entered a line that is not the exit token, not a help token and is  *)
(* a number within [1, N].                                                 *)
(***************************************************************************)
C2_RevealOnlyAfterAcceptedMove ==
    (Printed(KeyLine) \/ Printed(ComputerMoveLine)) =>
        /\ input # None
        /\ input # <<"0">>
        /\ toLowerCase(input) \notin HelpTokens
        /\ InRange(input)

C2_Witness ==
    /\ pc = "returned"
    /\ Printed(KeyLine)
    /\ Printed(ComputerMoveLine)

(***************************************************************************)
(* C3.  When the key and the computer's move are written, they are the     *)
(* key and the move of the game, the tag written is the tag stored by the  *)
(* constructor, and the MAC of the written move under the written key is   *)
(* that tag.                                                               *)
(***************************************************************************)
C3_RevealReproducesTag ==
    (Printed(KeyLine) /\ Printed(ComputerMoveLine)) =>
        /\ ValuesPrinted(KeyLine) = {key}
        /\ ValuesPrinted(ComputerMoveLine) = {computerMove}
        /\ ValuesPrinted(TagLine) = {computerHmac}
        /\ \A k \in ValuesPrinted(KeyLine), m \in ValuesPrinted(ComputerMoveLine) :
               \A t \in ValuesPrinted(TagLine) : calculateHMAC(k, m) = t

C3_Witness ==
    /\ Printed(KeyLine)
    /\ Printed(ComputerMoveLine)
    /\ result = WinStr

(***************************************************************************)
(* C4.  After a help token the results table is written and the controller *)
(* waits for the player's move again.  In the code the callback returns    *)
(* after writing the table and nothing asks again: the process ends.       *)
(***************************************************************************)
C4_HelpAsksAgain ==
    (input # None /\ toLowerCase(input) \in HelpTokens) =>
        /\ Printed("table")
        /\ pc = "awaitMove"

(***************************************************************************)
(* C5.  After an input that is no number or is outside [1, N] (and is no   *)
(* exit or help token) the error is written and the controller waits for   *)
(* the player's move again.  In the code the callback returns after        *)
(* writing the error: the round is over.                                   *)
(***************************************************************************)
C5_InvalidAsksAgain ==
    (/\ input # None
     /\ input # <<"0">>
     /\ toLowerCase(input) \notin HelpTokens
     /\ ~InRange(input)) =>
        /\ Printed("Invalid input. Please enter a valid move.")
        /\ pc = "awaitMove"

(***************************************************************************)
(* C6.  After the exit token '0' the process has ended with status 0, and  *)
(* neither the key, the computer's move, the tag nor an outcome has been   *)
(* written, and determineWinner has produced no result for the round.      *)
(***************************************************************************)
C6_ExitRevealsNothing ==
    input = <<"0">> =>
        /\ pc = "exited"
        /\ exitCode = 0
        /\ ~Printed(KeyLine)
        /\ ~Printed(ComputerMoveLine)
        /\ ~Printed(TagLine)
        /\ ~Printed("result")
        /\ result = None
        /\ stderr = <<>>

C6_Witness ==
    /\ input = <<"0">>
    /\ pc = "exited"
    /\ Printed(MovePrompt)

(***************************************************************************)
(* C7.  After an input that is an integer k with 1 <= k <= N, the last     *)
(* lines written are the player's move moves[k-1], the committed tag, the  *)
(* key, the computer's move, the tag of the player's move and, last, the   *)
(* outcome determineWinner(moves[k-1], computerMove), one of Win!, Lose!,  *)
(* Draw!; nothing is written to the standard error and the process ends    *)
(* with status 0.                                                          *)
(***************************************************************************)
IsIntegerSelection(inp) ==
    /\ inp # None
    /\ InRange(inp)
    /\ Number(inp).num % Number(inp).den = 0

Selection(inp) == Number(inp).num \div Number(inp).den

C7_ValidSelectionResolves ==
    IsIntegerSelection(input) =>
        LET k == Selection(input)
            n == Len(stdout)
            outcome == determineWinner(results, moves[k], computerMove)
        IN  /\ pc \in {"returned", "exited"}
            /\ pc = "exited" => exitCode = 0
            /\ stderr = <<>>
            /\ n >= 6
            /\ stdout[n - 5] = Line("Your move: ", moves[k])
            /\ stdout[n - 4] = Line(TagLine, computerHmac)
            /\ stdout[n - 3] = Line(KeyLine, key)
            /\ stdout[n - 2] = Line(ComputerMoveLine, computerMove)
            /\ stdout[n - 1] = Line("Your HMAC move: ", calculateHMAC(key, moves[k]))
            /\ stdout[n] = Line("result", outcome)
            /\ result = outcome
            /\ outcome \in {WinStr, LoseStr, DrawStr}
            /\ Cardinality({i \in 1..n : stdout[i].k = "result"}) = 1

C7_Witness ==
    /\ IsIntegerSelection(input)
    /\ Selection(input) = Len(moves)
    /\ pc = "exited"
    /\ result = LoseStr

(***************************************************************************)
(* C8.  A line of fewer than 3 moves, of an even number of moves or with a *)
(* repeated move is rejected: an error is written to the standard error,   *)
(* the process ends with a non-zero status, no computer move, key or tag   *)
(* exists and no menu or prompt for a move is written.  Hence whenever a   *)
(* round exists the moves are an odd number, at least 3, and distinct.     *)
(***************************************************************************)
Rejectable(mvs) ==
    \/ Len(mvs) < 3
    \/ Len(mvs) % 2 = 0
    \/ \E i, j \in 1..Len(mvs) : i # j /\ mvs[i] = mvs[j]

C8_BadMoveSetRejected ==
    /\ (moves # None /\ Rejectable(moves)) =>
          /\ pc = "exited"
          /\ exitCode > 0
          /\ Len(stderr) = 1
          /\ computerMove = None /\ key = None /\ computerHmac = None
          /\ results = None /\ table = None
          /\ Len(stdout) = 1
          /\ ~Printed(MovePrompt)
    /\ (computerMove # None \/ pc \in {"constructed", "awaitMove", "returned"}) =>
          /\ moves # None
          /\ ~Rejectable(moves)

C8_Witness ==
    /\ moves # None
    /\ Len(moves) = 4
    /\ Cardinality({moves[i] : i \in 1..Len(moves)}) = 4
    /\ pc = "exited"
    /\ exitCode = 1

(***************************************************************************)
(* C9.  A process that was given a valid move set has, when it has ended,  *)
(* either written exactly one outcome or been aborted by the exit token,   *)
(* and not both.  In the code the help branch, the invalid-input branch    *)
(* and the uncaught exception of a fractional selection end the process    *)
(* with neither.                                                           *)
(***************************************************************************)
OutcomesWritten == Cardinality({i \in 1..Len(stdout) : stdout[i].k = "result"})

Aborted == input = <<"0">> /\ pc = "exited" /\ exitCode = 0

C9_OneOutcomeOrAbort ==
    (pc = "exited" /\ computerMove # None) =>
        /\ OutcomesWritten <= 1
        /\ (OutcomesWritten = 1) # Aborted

(***************************************************************************)
(* C10.  For all moves a, b of a game exactly one of these holds:          *)
(* determineWinner(a,b) is Win!, determineWinner(b,a) is Win!, or a = b    *)
(* with Draw!; so no two distinct moves draw.  In the code two moves that  *)
(* are not neighbours in the cycle draw (N >= 5), as do a move and the     *)
(* move named __proto__ that precedes it.                                  *)
(***************************************************************************)
C10_ExactlyOneWinsOrEqual ==
    results # None =>
        \A i, j \in 1..Len(moves) :
            LET a == moves[i]
                b == moves[j]
                ab == determineWinner(results, a, b) = WinStr
                ba == determineWinner(results, b, a) = WinStr
                eq == a = b /\ determineWinner(results, a, b) = DrawStr
            IN  /\ Cardinality({x \in {"ab", "ba", "eq"} :
                                    \/ x = "ab" /\ ab
                                    \/ x = "ba" /\ ba
                                    \/ x = "eq" /\ eq}) = 1
                /\ a # b => determineWinner(results, a, b) # DrawStr

(***************************************************************************)
(* C11.  For the moves a = moves[i], b = moves[j] of a game (indices from  *)
(* 0), determineWinner(a,b) is Win! exactly when i = (j+1) mod N, Lose!    *)
(* exactly when j = (i+1) mod N, and Draw! otherwise.  In the code the     *)
(* move after a move named __proto__ draws against it, because the plain   *)
(* object this.results ignores the assignment to that name.                *)
(***************************************************************************)
C11_WinnerFollowsCycle ==
    results # None =>
        \A i, j \in 0..(Len(moves) - 1) :
            LET N == Len(moves)
                r == determineWinner(results, moves[i + 1], moves[j + 1])
            IN  /\ (r = WinStr) <=> (i = (j + 1) % N)
                /\ (r = LoseStr) <=> (j = (i + 1) % N)
                /\ (r = DrawStr) <=> (i # (j + 1) % N /\ j # (i + 1) % N)

(***************************************************************************)
(* C12.  The beats mapping of a game is a bijection on the moves and one   *)
(* cycle of length N: N applications from a move lead back to it, fewer    *)
(* do not.  In the code a move named __proto__ gets no entry, and reading  *)
(* its entry gives Object.prototype, which is no move.                     *)
(***************************************************************************)
RECURSIVE BeatsTimes(_, _, _)
BeatsTimes(res, m, k) ==
    IF k = 0 THEN m ELSE BeatsTimes(res, ResultsGet(res, m), k - 1)

MoveSet == {moves[i] : i \in 1..Len(moves)}

C12_BeatsIsOneCycle ==
    results # None =>
        /\ {ResultsGet(results, m) : m \in MoveSet} = MoveSet
        /\ \A m \in MoveSet :
              /\ BeatsTimes(results, m, Len(moves)) = m
              /\ \A k \in 1..(Len(moves) - 1) : BeatsTimes(results, m, k) # m

(***************************************************************************)
(* C13.  In the results table of a game, for rows and columns i # j the    *)
(* cell (i,j) is Win! if and only if the cell (j,i) is Lose!, and every    *)
(* cell (i,i) is Draw!.                                                    *)
(***************************************************************************)
C13_TableAntisymmetric ==
    table # None =>
        \A i, j \in 1..Len(moves) :
            /\ i # j => ((table[i + 1][j + 1] = WinStr) <=> (table[j + 1][i + 1] = LoseStr))
            /\ table[i + 1][i + 1] = DrawStr

C13_Witness ==
    /\ table # None
    /\ Len(moves) = 5
    /\ \E i, j \in 1..Len(moves) :
          /\ i # j
          /\ table[i + 1][j + 1] = WinStr
          /\ table[j + 1][i + 1] = LoseStr
    /\ \E i, j \in 1..Len(moves) : i # j /\ table[i + 1][j + 1] = DrawStr

(***************************************************************************)
(* C14.  The player's move that is written, the result of every input      *)
(* that passes the range check of the callback, and the computer's move    *)
(* are moves of the game.  In the code a fractional number within [1, N]   *)
(* passes the check and this.moves[input - 1] is undefined.                *)
(***************************************************************************)
C14_SelectionIsAMove ==
    /\ computerMove # None => computerMove \in MoveSet
    /\ (/\ input # None
        /\ input # <<"0">>
        /\ toLowerCase(input) \notin HelpTokens
        /\ InRange(input)) =>
           /\ ElementAtInputMinusOne(moves, input) \in MoveSet
           /\ ValuesPrinted("Your move: ") \subseteq MoveSet

(***************************************************************************)
(* C15.  The results table of a game of N moves has N+1 rows of N+1 cells; *)
(* the first row is ' User/Computer' and the moves in order; row i+1       *)
(* starts with moves[i]; the cell (i+1, j+1) is                            *)
(* determineWinner(moves[i], moves[j]).                                    *)
(***************************************************************************)
C15_TableIsGridOfOutcomes ==
    table # None =>
        LET N == Len(moves)
        IN  /\ Len(table) = N + 1
            /\ \A r \in 1..(N + 1) : Len(table[r]) = N + 1
            /\ table[1][1] = <<" ", "U", "s", "e", "r", "/",
                               "C", "o", "m", "p", "u", "t", "e", "r">>
            /\ \A j \in 1..N : table[1][j + 1] = moves[j]
            /\ \A i \in 1..N : table[i + 1][1] = moves[i]
            /\ \A i, j \in 1..N :
                   table[i + 1][j + 1] = determineWinner(results, moves[i], moves[j])

C15_Witness ==
    /\ table # None
    /\ Len(table) = 6
    /\ table[2][3] = LoseStr
    /\ table[3][2] = WinStr
    /\ table[2][4] = DrawStr

(***************************************************************************)
(* C16.  In the text of the table that the help branch writes, every       *)
(* column is as wide as the longest cell of that column over all rows,     *)
(* the header included; each cell is followed by blanks up to that width;  *)
(* the cells of a row are joined by ' | '; all rows have the same length;  *)
(* and the line between the header row and the first data row is a rule    *)
(* of that length.                                                         *)
(***************************************************************************)
\* the positions of the line breaks of a text, and the k-th of them (the
\* start of the text for k = 0, its end for k past the last)
Breaks(text) == {i \in 1..Len(text) : text[i] = "\n"}

BreakAt(text, k) ==
    IF k = 0 THEN 0
    ELSE IF k > Cardinality(Breaks(text)) THEN Len(text) + 1
    ELSE CHOOSE p \in Breaks(text) :
             Cardinality({q \in Breaks(text) : q < p}) = k - 1

\* the lines of a text
LinesOf(text) ==
    [k \in 1..(Cardinality(Breaks(text)) + 1) |->
        SubSeq(text, BreakAt(text, k - 1) + 1, BreakAt(text, k) - 1)]

\* the length of the longest cell of column c of the table
ColumnWidth(c) ==
    CHOOSE w \in {Len(table[r][c]) : r \in 1..Len(table)} :
        \A r \in 1..Len(table) : Len(table[r][c]) <= w

RECURSIVE ColumnOffset(_)
\* the number of characters before column c in a row
ColumnOffset(c) ==
    IF c = 1 THEN 0 ELSE ColumnOffset(c - 1) + ColumnWidth(c - 1) + 3

AllBlank(s) == \A i \in 1..Len(s) : s[i] = " "

C16_TableTextIsAligned ==
    \A text \in ValuesPrinted("table") :
        LET ls == LinesOf(text)
            N == Len(moves)
            rowLen == ColumnOffset(N + 1) + ColumnWidth(N + 1)
            \* the text of row r of the table: the rule follows the header
            RowText(r) == IF r = 1 THEN ls[1] ELSE ls[r + 1]
        IN  /\ Len(ls) = N + 3
            /\ \A r \in 1..(N + 1) :
                  /\ Len(RowText(r)) = rowLen
                  /\ \A c \in 1..(N + 1) :
                        LET from == ColumnOffset(c)
                            cell == table[r][c]
                        IN  /\ SubSeq(RowText(r), from + 1, from + Len(cell)) = cell
                            /\ AllBlank(SubSeq(RowText(r), from + Len(cell) + 1,
                                               from + ColumnWidth(c)))
                            /\ c <= N =>
                                 SubSeq(RowText(r), from + ColumnWidth(c) + 1,
                                        from + ColumnWidth(c) + 3) = <<" ", "|", " ">>
            /\ Len(ls[2]) = rowLen
            /\ \A i \in 1..Len(ls[2]) : ls[2][i] \in {"-", "+"}

C16_Witness ==
    /\ Printed("table")
    /\ Len(moves) = 5
    /\ moves[2] = ProtoName
    /\ toLowerCase(input) = <<"h", "e", "l", "p">>

(***************************************************************************)
(* C17.  The computer's move, the key and the tag are fixed before the     *)
(* player's line is read and what is revealed does not depend on that      *)
(* line: in every step that handles the player's line, the tag held        *)
(* before the step is the MAC of the move held before the step under the   *)
(* key held before the step, and every tag, key and computer's move the    *)
(* step leaves written is the one held before the step.  Two runs with     *)
(* the same moves and the same draws are in the same state before that     *)
(* step, so they reveal the same values.                                   *)
(***************************************************************************)
C17_RevealFixedBeforeInput ==
    [][(pc = "awaitMove" /\ pc' # "awaitMove") =>
          /\ computerMove \in MoveSet
          /\ key \in Keys
          /\ computerHmac = calculateHMAC(key, computerMove)
          /\ \A i \in 1..Len(stdout') :
                /\ stdout'[i].k = TagLine => stdout'[i].v = computerHmac
                /\ stdout'[i].k = KeyLine => stdout'[i].v = key
                /\ stdout'[i].k = ComputerMoveLine => stdout'[i].v = computerMove]_vars

C17_Witness ==
    /\ pc = "returned"
    /\ Printed(TagLine) /\ Printed(KeyLine) /\ Printed(ComputerMoveLine)
    /\ result = DrawStr
    /\ ValuesPrinted("Your move: ") # {computerMove}

(***************************************************************************)
(* C18.  No step of play(), neither its body nor any branch of its         *)
(* callback, changes the moves, the beats mapping, the results table, the  *)
(* computer's move, the key or the tag.                                    *)
(***************************************************************************)
C18_PlayLeavesGameUnchanged ==
    [][(pc \in {"constructed", "awaitMove"}) =>
          (UNCHANGED <<moves, results, table, computerMove, key, computerHmac>>)]_vars

C18_Witness ==
    /\ pc = "returned"
    /\ input = <<"x">>
    /\ Printed("Invalid input. Please enter a valid move.")
    /\ table = generateTable(moves, generateResults(moves))

(***************************************************************************)
(* C19.  The computer's move is always a move of the game; for every       *)
(* accepted line of moves every one of its moves can become the computer's *)
(* move; and each of Win!, Lose! and Draw! is the outcome of some draw of  *)
(* the computer's move and some selection of the player.                   *)
(***************************************************************************)
Outcomes == {WinStr, LoseStr, DrawStr}

C19_PickerCoversMoveSet ==
    /\ computerMove # None => computerMove \in MoveSet
    /\ pc = "readMoves" =>
          \A line \in MoveLines :
              LET mvs == split(line)
              IN  ~Rejectable(mvs) =>
                    /\ \A n \in 1..Len(mvs) :
                          ENABLED (/\ \E randomIndex \in 0..(MaxTokens - 1), k \in Keys :
                                         NonTransitiveGame(line, randomIndex, k)
                                   /\ computerMove' = mvs[n])
                    /\ \A o \in Outcomes :
                          \E randomIndex \in RandomIndexes(mvs), sel \in 1..Len(mvs) :
                              determineWinner(generateResults(mvs), mvs[sel],
                                  generateRandomMove(mvs, randomIndex)) = o

C19_Witness ==
    /\ computerMove # None
    /\ Len(moves) = 5
    /\ computerMove = moves[5]
    /\ result = WinStr
    /\ pc = "exited"

====
